---- MODULE Spec2Model ----
(***************************************************************************)
(* Model of the T-BSP engine of open-science-dlt (src/embedded/t_bsp.c):   *)
(* a static pool of cells, each a bounded buffer of poses, driven by       *)
(* t_bsp_init, t_bsp_insert_pose and t_bsp_reset_cell, and queried by      *)
(* t_bsp_get_cell.                                                         *)
(***************************************************************************)
EXTENDS Integers, Sequences, FiniteSets, TLC

(***************************************************************************)
(* Sizes.  The program is built with MAX_CELLS = 64 (t_bsp.h:54) and       *)
(* MAX_POSES_PER_CELL = 128 (t_bsp.h:42); the model keeps the code's       *)
(* comparisons against these names and scales the values down.             *)
(***************************************************************************)
MAX_CELLS == 2

MAX_POSES_PER_CELL == 2

FRACBITS == 16

FRACUNIT == 65536

FIXED_180_DEG == 180 * FRACUNIT

FIXED_360_DEG == 360 * FRACUNIT

UINT16_MOD == 65536

\* "No cell": the NULL pointer of the C code, as a slot index.
NULL == -1

\* Slot indices of bsp->cells[].
CellIdx == 0 .. (MAX_CELLS - 1)

\* Cell IDs callers use: one more ID than there are slots, so that the pool
\* can be exhausted.  ID 0 is also the value memset leaves in a fresh slot.
CellIds == 0 .. MAX_CELLS

\* Poses are opaque to the T-BSP engine (copied by value); 0 is the
\* all-zero pose left by memset.
ZeroPose == 0

\* Pose values callers insert into the pool as a whole.
Poses == {1}

\* Inputs of the buffer-level runs: two IDs, two distinguishable poses.
RingIds == {0, 1}

RingPoses == {1, 2}

\* Voyage origins handed to t_bsp_init: (lat0, lon0) in fixed-point degrees.
InitLats == {0}

InitLons == {0, 200 * FRACUNIT}

VARIABLES cells, active_count, ref_lat, ref_lon, call

vars == <<cells, active_count, ref_lat, ref_lon, call>>

----------------------------------------------------------------------------
(* Helpers *)

MinOf(S) == CHOOSE x \in S : \A y \in S : x <= y

\* normalize_lon: the two while loops of se3_math.c.
RECURSIVE normalize_lon(_)
\* Variant: one correction step in place of each loop.
normalize_lon_Once(lon) ==
    IF lon > FIXED_180_DEG THEN lon - FIXED_360_DEG
    ELSE IF lon < -FIXED_180_DEG THEN lon + FIXED_360_DEG
    ELSE lon

normalize_lon(lon) ==
    IF lon > FIXED_180_DEG THEN normalize_lon(lon - FIXED_360_DEG)
    ELSE IF lon < -FIXED_180_DEG THEN normalize_lon(lon + FIXED_360_DEG)
    ELSE lon

\* A cell as memset(…, 0, …) leaves it.
ZeroCell ==
    [lat_min |-> 0, lat_max |-> 0, lon_min |-> 0, lon_max |-> 0,
     cell_id |-> 0, pose_count |-> 0, active |-> FALSE,
     poses |-> [k \in 0 .. (MAX_POSES_PER_CELL - 1) |-> ZeroPose]]

----------------------------------------------------------------------------
(* t_bsp_insert_pose *)

\* Variant: the scan stops one slot short (i < MAX_CELLS - 1).
InsertFind_StopsShort(cs, cell_id) ==
    LET S == {i \in CellIdx : i < MAX_CELLS - 1 /\ cs[i].active
                                /\ cs[i].cell_id = cell_id}
    IN  IF S = {} THEN NULL ELSE MinOf(S)

\* Variant: a full pool is reported before the scan (early capacity check).
InsertFind_FullFirst(cs, cell_id) ==
    LET S == {i \in CellIdx : cs[i].active /\ cs[i].cell_id = cell_id}
    IN  IF S = {} \/ (\A i \in CellIdx : cs[i].active) THEN NULL ELSE MinOf(S)

\* Pass 1: first active slot whose cell_id matches, or NULL.
InsertFind(cs, cell_id) ==
    LET S == {i \in CellIdx : cs[i].active /\ cs[i].cell_id = cell_id}
    IN  IF S = {} THEN NULL ELSE MinOf(S)

\* Variant: with no inactive slot, slot 0 is recycled.
InsertFreeSlot_Evict(cs) ==
    LET S == {i \in CellIdx : ~cs[i].active}
    IN  IF S = {} THEN 0 ELSE MinOf(S)

\* Pass 2: first inactive slot, or NULL.
InsertFreeSlot(cs) ==
    LET S == {i \in CellIdx : ~cs[i].active}
    IN  IF S = {} THEN NULL ELSE MinOf(S)

\* Pass 2 body: initialise the slot for cell_id.
AllocCell(c, cell_id) ==
    [c EXCEPT !.cell_id = cell_id, !.pose_count = 0, !.active = TRUE]

\* active_count++ (uint16_t).
IncActive(ac) == (ac + 1) % UINT16_MOD

\* Variant: the comparison is > instead of >=.
OverflowReset_Late(c) ==
    IF c.pose_count > MAX_POSES_PER_CELL
    THEN [c EXCEPT !.pose_count = 0]
    ELSE c

\* Variant: the overflow branch clears the whole header of the cell.
OverflowReset_ClearsId(c) ==
    IF c.pose_count >= MAX_POSES_PER_CELL
    THEN [c EXCEPT !.pose_count = 0, !.cell_id = 0]
    ELSE c

\* Overflow check: a full cell restarts at index 0.
OverflowReset(c) ==
    IF c.pose_count >= MAX_POSES_PER_CELL
    THEN [c EXCEPT !.pose_count = 0]
    ELSE c

\* Variant: pre-increment, poses[++pose_count] = *pose.
StorePose_PreInc(c, pose) ==
    LET n == (c.pose_count + 1) % UINT16_MOD
    IN  [c EXCEPT !.poses = IF n \in DOMAIN c.poses
                            THEN [c.poses EXCEPT ![n] = pose]
                            ELSE c.poses,
                  !.pose_count = n]

\* Variant: the pose is always written to the front of the buffer.
StorePose_Front(c, pose) ==
    [c EXCEPT !.poses = [c.poses EXCEPT ![0] = pose],
              !.pose_count = (c.pose_count + 1) % UINT16_MOD]

\* poses[pose_count++] = *pose.  A store outside the buffer does not land
\* in poses[].
StorePose(c, pose) ==
    [c EXCEPT !.poses = IF c.pose_count \in DOMAIN c.poses
                        THEN [c.poses EXCEPT ![c.pose_count] = pose]
                        ELSE c.poses,
              !.pose_count = (c.pose_count + 1) % UINT16_MOD]

\* The whole function: new cells, new active_count and the return value.
InsertPose(cs, ac, cell_id, pose) ==
    LET found == InsertFind(cs, cell_id)
        free  == InsertFreeSlot(cs)
        slot  == IF found # NULL THEN found ELSE free
    IN  IF slot = NULL
        THEN [cells |-> cs, active_count |-> ac, ret |-> FALSE, target |-> NULL]
        ELSE LET c0 == IF found = NULL THEN AllocCell(cs[slot], cell_id)
                                       ELSE cs[slot]
                 c1 == StorePose(OverflowReset(c0), pose)
             IN  [cells |-> [cs EXCEPT ![slot] = c1],
                  active_count |-> IF found = NULL THEN IncActive(ac) ELSE ac,
                  ret |-> TRUE, target |-> slot]

----------------------------------------------------------------------------
(* t_bsp_get_cell *)

\* Slot index of the first active cell with this ID, or NULL.
t_bsp_get_cell(cs, cell_id) ==
    LET S == {i \in CellIdx : cs[i].active /\ cs[i].cell_id = cell_id}
    IN  IF S = {} THEN NULL ELSE MinOf(S)

----------------------------------------------------------------------------
(* t_bsp_reset_cell *)

\* Variant: the loop does not test the active flag.
ResetFind_AnySlot(cs, cell_id) ==
    LET S == {i \in CellIdx : cs[i].cell_id = cell_id}
    IN  IF S = {} THEN NULL ELSE MinOf(S)

\* Slot the reset loop stops at, or NULL.
ResetFind(cs, cell_id) ==
    LET S == {i \in CellIdx : cs[i].active /\ cs[i].cell_id = cell_id}
    IN  IF S = {} THEN NULL ELSE MinOf(S)

\* Variant: the slot header is wiped, cell_id included.
ResetSlot_ClearsId(c) ==
    [c EXCEPT !.active = FALSE, !.pose_count = 0, !.cell_id = 0]

\* Variant: pose_count is left as it was.
ResetSlot_KeepsCount(c) == [c EXCEPT !.active = FALSE]

\* Variant: the active flag is left set.
ResetSlot_KeepsActive(c) == [c EXCEPT !.pose_count = 0]

\* Loop body: deactivate and empty the slot; poses are left in place.
ResetSlot(c) == [c EXCEPT !.active = FALSE, !.pose_count = 0]

\* Variant: the decrement is missing.
DecActive_Missing(ac) == ac

\* active_count-- (uint16_t).
DecActive(ac) == (ac - 1) % UINT16_MOD

ResetCell(cs, ac, cell_id) ==
    LET i == ResetFind(cs, cell_id)
    IN  IF i = NULL
        THEN [cells |-> cs, active_count |-> ac, target |-> NULL]
        ELSE [cells |-> [cs EXCEPT ![i] = ResetSlot(cs[i])],
              active_count |-> DecActive(ac), target |-> i]

----------------------------------------------------------------------------
(* State machine *)

\* Record of the last API call: its name, arguments and return value, the
\* slot it worked on (target_cell / cells[i], NULL if none) and what that slot
\* held when the call began.
CallRec(op, cell_id, pose, ret, target, cs) ==
    [op |-> op, cell_id |-> cell_id, pose |-> pose, ret |-> ret,
     target |-> target,
     was_active |-> IF target = NULL THEN FALSE ELSE cs[target].active,
     old_count |-> IF target = NULL THEN 0 ELSE cs[target].pose_count]

\* The record of a t_bsp_init(lat0, lon0) call; old_active is active_count
\* as it was before the call.
InitCallOf(lat0, lon0, old_active) ==
    [op |-> "init", cell_id |-> 0, pose |-> ZeroPose, ret |-> TRUE,
     target |-> NULL, was_active |-> FALSE, old_count |-> 0,
     lat0 |-> lat0, lon0 |-> lon0, old_active |-> old_active]

InitCall == InitCallOf(0, 0, 0)

Init ==
    \E lat0 \in InitLats, lon0 \in InitLons :
        /\ ref_lat = lat0
        /\ ref_lon = normalize_lon(lon0)
        /\ active_count = 0
        /\ cells = [i \in CellIdx |-> ZeroCell]
        /\ call = InitCallOf(lat0, lon0, 0)

\* Variant: the reference longitude is stored as given.
t_bsp_init_RawLon(lat0, lon0) ==
    /\ ref_lat' = lat0
    /\ ref_lon' = lon0
    /\ active_count' = 0
    /\ cells' = [i \in CellIdx |-> ZeroCell]
    /\ call' = InitCallOf(lat0, lon0, active_count)

t_bsp_init(lat0, lon0) ==
    /\ ref_lat' = lat0
    /\ ref_lon' = normalize_lon(lon0)
    /\ active_count' = 0
    /\ cells' = [i \in CellIdx |-> ZeroCell]
    /\ call' = InitCallOf(lat0, lon0, active_count)

t_bsp_insert_pose(cell_id, pose) ==
    LET r == InsertPose(cells, active_count, cell_id, pose)
    IN  /\ cells' = r.cells
        /\ active_count' = r.active_count
        /\ call' = CallRec("insert", cell_id, pose, r.ret, r.target, cells)
        /\ UNCHANGED <<ref_lat, ref_lon>>

t_bsp_reset_cell(cell_id) ==
    LET r == ResetCell(cells, active_count, cell_id)
    IN  /\ cells' = r.cells
        /\ active_count' = r.active_count
        /\ call' = CallRec("reset", cell_id, ZeroPose, TRUE, r.target, cells)
        /\ UNCHANGED <<ref_lat, ref_lon>>

DoInit == \E lat0 \in InitLats, lon0 \in InitLons : t_bsp_init(lat0, lon0)

DoInsert == \E id \in CellIds, p \in Poses : t_bsp_insert_pose(id, p)

DoReset == \E id \in CellIds : t_bsp_reset_cell(id)

Next == DoInit \/ DoInsert \/ DoReset

\* The pool as a whole: every ID, pool exhaustion included.
Spec == Init /\ [][Next]_vars

RingInsert == \E id \in RingIds, p \in RingPoses : t_bsp_insert_pose(id, p)

RingReset == \E id \in RingIds : t_bsp_reset_cell(id)

RingInit == \E lat0 \in InitLats, lon0 \in InitLons : t_bsp_init(lat0, lon0)

NextRing == RingInit \/ RingInsert \/ RingReset

\* The pose buffers: fewer IDs, distinguishable poses.
SpecRing == Init /\ [][NextRing]_vars

----------------------------------------------------------------------------
(* Vocabulary of the properties *)

\* Some active cell has this ID.
HasActive(cs, id) == \E i \in CellIdx : cs[i].active /\ cs[i].cell_id = id

\* Every slot of the pool is active.
PoolFull(cs) == \A i \in CellIdx : cs[i].active

\* The slot has held a pose at some time since t_bsp_init.
Used(c) == c.poses[0] # ZeroPose

RootUnchanged ==
    /\ cells' = cells
    /\ active_count' = active_count
    /\ ref_lat' = ref_lat
    /\ ref_lon' = ref_lon

----------------------------------------------------------------------------
(* Properties of the cell pool *)

\* C1: after t_bsp_init and any sequence of inserts and resets (failing
\* inserts and resets of unknown IDs included), active_count equals the
\* number of cells whose active flag is true.
C1_ActiveCountMatches ==
    active_count = Cardinality({i \in CellIdx : cells[i].active})

\* A reset of an unknown ID, after an earlier reset freed a slot, with a
\* cell still active.
C1_Witness ==
    /\ call.op = "reset" /\ call.target = NULL
    /\ active_count >= 1
    /\ \E i \in CellIdx : ~cells[i].active /\ Used(cells[i])

\* C2: no two active cells have the same cell_id.
C2_NoDuplicateIds ==
    \A i, j \in CellIdx :
        (i # j /\ cells[i].active /\ cells[j].active)
            => cells[i].cell_id # cells[j].cell_id

\* An insert found its already-active cell behind a slot that a reset had
\* freed.
C2_Witness ==
    /\ call.op = "insert" /\ call.ret /\ call.was_active
    /\ \E j \in CellIdx :
          j < call.target /\ ~cells[j].active /\ Used(cells[j])

\* C3: every cell has pose_count <= MAX_POSES_PER_CELL, and the index at
\* which the next insert into any cell stores its pose lies inside the
\* cell's buffer.
C3_PoseCountBounded ==
    \A i \in CellIdx :
        /\ cells[i].pose_count <= MAX_POSES_PER_CELL
        /\ OverflowReset(cells[i]).pose_count \in DOMAIN cells[i].poses

\* An insert has just filled a cell to capacity.
C3_Witness ==
    /\ call.op = "insert" /\ call.ret
    /\ cells[call.target].pose_count = MAX_POSES_PER_CELL
    /\ call.old_count = MAX_POSES_PER_CELL - 1

\* C4: every cell whose active flag is false has pose_count = 0.
C4_InactiveEmpty ==
    \A i \in CellIdx : ~cells[i].active => cells[i].pose_count = 0

\* A reset has just emptied the last active cell, which held poses.
C4_Witness ==
    /\ call.op = "reset" /\ call.target # NULL
    /\ call.old_count >= 1
    /\ active_count = 0
    /\ ~cells[call.target].active

\* C5: an insert for an ID that no active cell has, while every slot is
\* active, returns false and leaves the whole root unchanged.
C5_ExhaustedInsertNoOp ==
    [][\A id \in CellIds :
          (/\ call'.op = "insert" /\ call'.cell_id = id
           /\ PoolFull(cells) /\ ~HasActive(cells, id))
          => (call'.ret = FALSE /\ RootUnchanged)]_vars

\* An insert has just failed on a full pool.
C5_Witness ==
    /\ call.op = "insert" /\ ~call.ret
    /\ PoolFull(cells) /\ ~HasActive(cells, call.cell_id)
    /\ active_count = MAX_CELLS

\* C6: an insert returns false exactly when no active cell has the ID and
\* no slot is inactive; in particular it succeeds on an already-active cell
\* of a full pool.
C6_FalseOnlyOnExhaustion ==
    [][call'.op = "insert"
          => (call'.ret = FALSE
                <=> (PoolFull(cells) /\ ~HasActive(cells, call'.cell_id)))]_vars

\* An insert into an already-active cell succeeded while every slot was
\* active.
C6_Witness ==
    /\ call.op = "insert" /\ call.ret /\ call.was_active
    /\ PoolFull(cells)

\* C7: an insert that targets an active cell holding MAX_POSES_PER_CELL
\* poses returns true and leaves that cell with pose_count = 1, the inserted
\* pose at index 0, still active under the same cell_id, and active_count
\* unchanged.
C7_OverflowRestartsAtOne ==
    [][\A i \in CellIdx :
          (/\ cells[i].active
           /\ cells[i].pose_count = MAX_POSES_PER_CELL
           /\ call'.op = "insert" /\ call'.cell_id = cells[i].cell_id)
          => (/\ call'.ret
              /\ cells'[i].pose_count = 1
              /\ cells'[i].poses[0] = call'.pose
              /\ cells'[i].active
              /\ cells'[i].cell_id = cells[i].cell_id
              /\ active_count' = active_count)]_vars

\* The insert after the one that filled the cell: it overwrote index 0 with
\* a pose that differs from the older one still stored behind it.
C7_Witness ==
    /\ call.op = "insert" /\ call.ret /\ call.was_active
    /\ call.old_count = MAX_POSES_PER_CELL
    /\ cells[call.target].pose_count = 1
    /\ cells[call.target].poses[0] = call.pose
    /\ cells[call.target].poses[1] \notin {call.pose, ZeroPose}

\* C8: a reset of an active cell's ID marks exactly that cell inactive,
\* zeroes its pose_count, decrements active_count by one and leaves its
\* poses and every other cell unchanged; t_bsp_get_cell then returns none
\* for the ID, and keeps doing so until an insert for that ID.
C8_ResetFreesExactlyThatCell ==
    [][/\ \A i \in CellIdx :
            (/\ cells[i].active
             /\ call'.op = "reset" /\ call'.cell_id = cells[i].cell_id)
            => (/\ ~cells'[i].active
                /\ cells'[i].pose_count = 0
                /\ cells'[i].poses = cells[i].poses
                /\ active_count' = active_count - 1
                /\ \A j \in CellIdx \ {i} : cells'[j] = cells[j]
                /\ t_bsp_get_cell(cells', call'.cell_id) = NULL)
       /\ \A id \in CellIds :
            (/\ t_bsp_get_cell(cells, id) = NULL
             /\ ~(call'.op = "insert" /\ call'.cell_id = id))
            => t_bsp_get_cell(cells', id) = NULL]_vars

\* A reset has just drained a full cell while another cell stays active.
C8_Witness ==
    /\ call.op = "reset" /\ call.target # NULL
    /\ call.old_count = MAX_POSES_PER_CELL
    /\ t_bsp_get_cell(cells, call.cell_id) = NULL
    /\ \E j \in CellIdx : j # call.target /\ cells[j].active

\* C9: for an ID that no active cell has, t_bsp_get_cell returns none and
\* t_bsp_reset_cell changes nothing, also when the ID is still stored in an
\* inactive slot (so a second reset of the same ID does not decrement
\* active_count again).
C9_UnknownIdNoOp ==
    [][\A id \in CellIds :
          ~HasActive(cells, id)
          => (/\ t_bsp_get_cell(cells, id) = NULL
              /\ (call'.op = "reset" /\ call'.cell_id = id) => RootUnchanged)]_vars

\* A second reset of an ID whose value is still stored in the slot the
\* first reset freed, with another cell active.
C9_Witness ==
    /\ call.op = "reset" /\ call.target = NULL
    /\ \E i \in CellIdx :
          /\ ~cells[i].active /\ Used(cells[i])
          /\ cells[i].cell_id = call.cell_id
    /\ active_count >= 1

\* C10: a cell's cell_id is set by the insert that allocates the slot and
\* does not change while the cell stays active.
C10_CellIdStable ==
    [][\A i \in CellIdx :
          /\ (cells[i].active /\ cells'[i].active)
                => cells'[i].cell_id = cells[i].cell_id
          /\ (~cells[i].active /\ cells'[i].active)
                => (call'.op = "insert" /\ cells'[i].cell_id = call'.cell_id)]_vars

\* An overflowing insert into a cell with a non-zero ID, after another cell
\* was reset: the cell still carries the ID.
C10_Witness ==
    /\ call.op = "insert" /\ call.was_active
    /\ call.old_count = MAX_POSES_PER_CELL
    /\ call.cell_id # 0
    /\ cells[call.target].cell_id = call.cell_id
    /\ \E j \in CellIdx : ~cells[j].active /\ Used(cells[j])

\* C11 (as stated): t_bsp_reset_cell clears the cell_id of the slot it
\* resets, so that after the reset of an active cell the slot no longer holds
\* the old ID.  (ID 0 is left out: clearing to zero could not change it.)
C11_ResetClearsCellId ==
    [][\A i \in CellIdx :
          (/\ cells[i].active /\ cells[i].cell_id # 0
           /\ call'.op = "reset" /\ call'.cell_id = cells[i].cell_id)
          => cells'[i].cell_id # cells[i].cell_id]_vars

\* C11 (amended): t_bsp_reset_cell does not write cell_id: after the reset
\* of an active cell the slot still stores the old ID, and the ID is hidden
\* only by the slot being inactive.
C11_ResetKeepsCellId ==
    [][\A i \in CellIdx :
          (/\ cells[i].active
           /\ call'.op = "reset" /\ call'.cell_id = cells[i].cell_id)
          => (/\ cells'[i].cell_id = cells[i].cell_id
              /\ ~cells'[i].active
              /\ t_bsp_get_cell(cells', cells[i].cell_id) = NULL)]_vars

\* A reset has just freed a cell with a non-zero ID; the slot still stores
\* that ID.
C11_Witness ==
    /\ call.op = "reset" /\ call.target # NULL
    /\ call.was_active
    /\ call.cell_id # 0
    /\ cells[call.target].cell_id = call.cell_id
    /\ ~cells[call.target].active

----------------------------------------------------------------------------
(* Handoff protocol (src/embedded/handoff.c): data *)

\* A pointer argument: null, or pointing at a value.
NullPtr == [isnull |-> TRUE]

Ptr(v) == [isnull |-> FALSE, v |-> v]

\* rotation_identity: diag(1, 1, 1) in 16.16.
IdentityRotation == <<FRACUNIT, 0, 0, 0, FRACUNIT, 0, 0, 0, FRACUNIT>>

\* se3_pose_t.
MkPose(rotation, translation, timestamp, mmsi) ==
    [rotation |-> rotation, translation |-> translation,
     timestamp |-> timestamp, mmsi |-> mmsi]

\* handoff_packet_t, padding and signature bytes included.
MkPacket(mmsi, last_pose, old_cell_id, new_cell_id, flags, padding, signature) ==
    [mmsi |-> mmsi, last_pose |-> last_pose,
     old_cell_id |-> old_cell_id, new_cell_id |-> new_cell_id,
     flags |-> flags, padding |-> padding, signature |-> signature]

\* Packets are accepted up to this age in seconds.
HANDOFF_MAX_AGE == 86400

\* n bytes of one value.
Fill(n, b) == [k \in 1 .. n |-> b]

\* The root after t_bsp_init(0, 0), for runs that exercise the stateless
\* handoff functions.
InitHandoff ==
    /\ ref_lat = 0
    /\ ref_lon = normalize_lon(0)
    /\ active_count = 0
    /\ cells = [i \in CellIdx |-> ZeroCell]
    /\ call = InitCall

RootFixed == UNCHANGED <<cells, active_count, ref_lat, ref_lon>>

----------------------------------------------------------------------------
(* validate_handoff_packet *)

\* Variant: an age of exactly the limit is already too old.
HandoffTooOld_AtLimit(current_time, timestamp) ==
    current_time > timestamp /\ current_time - timestamp >= HANDOFF_MAX_AGE

\* The recency check: age is computed (unsigned) only when the clock is
\* past the pose timestamp, so the subtraction never wraps.
HandoffTooOld(current_time, timestamp) ==
    current_time > timestamp /\ current_time - timestamp > HANDOFF_MAX_AGE

validate_handoff_packet(pkt, current_time) ==
    IF pkt.isnull \/ pkt.v.mmsi = 0 THEN FALSE
    ELSE IF pkt.v.old_cell_id = pkt.v.new_cell_id THEN FALSE
    ELSE IF HandoffTooOld(current_time, pkt.v.last_pose.timestamp) THEN FALSE
    ELSE TRUE

\* Inputs of validate_handoff_packet.
ValidateMmsis == {0, 367123456}

ValidateCellIds == {256, 257}

ValidateTimestamps == {0, 1000, 200000, 2147483647}

ValidateNows ==
    {0, 999, 1000, 1001, 87400, 87401, 200000, 286400, 286401, 2147483647}

ValidatePackets ==
    {MkPacket(m, MkPose(IdentityRotation, <<0, 0, 0>>, ts, m), old, new, 0,
              Fill(3, 0), Fill(32, 0)) :
        m \in ValidateMmsis, ts \in ValidateTimestamps,
        old \in ValidateCellIds, new \in ValidateCellIds}

DoValidate ==
    /\ \E p \in {NullPtr} \cup {Ptr(q) : q \in ValidatePackets},
          now \in ValidateNows :
          call' = [op |-> "validate", pkt |-> p, now |-> now,
                   ret |-> validate_handoff_packet(p, now)]
    /\ RootFixed

\* C12: validate_handoff_packet(pkt, now) returns true if and only if pkt is
\* non-null, pkt.mmsi # 0, the two cell IDs differ, and now is before the
\* pose timestamp or now - timestamp <= 86400; a timestamp ahead of the
\* clock never rejects, and an age of exactly 86400 s is accepted.
C12_ValidateIff ==
    call.op = "validate" =>
        IF call.pkt.isnull THEN call.ret = FALSE
        ELSE LET q  == call.pkt.v
                 ts == q.last_pose.timestamp
             IN  call.ret <=>
                    (/\ q.mmsi # 0
                     /\ q.old_cell_id # q.new_cell_id
                     /\ (call.now < ts \/ call.now - ts <= 86400))

\* A packet aged exactly 86400 s has been accepted.
C12_Witness ==
    /\ call.op = "validate" /\ call.ret
    /\ ~call.pkt.isnull
    /\ call.now - call.pkt.v.last_pose.timestamp = 86400

----------------------------------------------------------------------------
(* create_handoff_packet *)

\* Variant: the source cell is stored in both cell-ID fields.
create_handoff_packet_OldTwice(mmsi, last_pose, old_cell_id, new_cell_id, flags, pkt) ==
    [pkt EXCEPT !.mmsi = mmsi,
                !.last_pose = last_pose,
                !.old_cell_id = old_cell_id,
                !.new_cell_id = old_cell_id,
                !.flags = flags,
                !.signature = Fill(32, 0)]

\* Writes the five leading fields and memsets the signature; _padding is
\* not written and keeps what *pkt held before the call.
create_handoff_packet(mmsi, last_pose, old_cell_id, new_cell_id, flags, pkt) ==
    [pkt EXCEPT !.mmsi = mmsi,
                !.last_pose = last_pose,
                !.old_cell_id = old_cell_id,
                !.new_cell_id = new_cell_id,
                !.flags = flags,
                !.signature = Fill(32, 0)]

\* Poses handed to the handoff functions: the identity pose, and a pose
\* with a quarter-turn rotation, 11 000 m east, 5 000 m south, 1 LSB down.
HandoffPoses ==
    {MkPose(IdentityRotation, <<0, 0, 0>>, 0, 0),
     MkPose(<<0, -FRACUNIT, 0, FRACUNIT, 0, 0, 0, 0, FRACUNIT>>,
            <<11000 * FRACUNIT, -5000 * FRACUNIT, -1>>,
            1700000000, 367123456)}

HandoffMmsis == {0, 367123456}

HandoffIdPairs == {<<256, 257>>, <<256, 256>>}

HandoffFlags == {0, 1, 3}

\* What the bytes of a packet that was never written, or was used before,
\* can hold.
PaddingValues == {Fill(3, 0), <<170, 187, 204>>}

SignatureValues == {Fill(32, 0), Fill(32, 255)}

\* Contents of *pkt before create_handoff_packet: zeroed memory, or
\* leftovers.
PriorPackets ==
    {MkPacket(0, MkPose(Fill(9, 0), <<0, 0, 0>>, 0, 0), 0, 0, 0,
              Fill(3, 0), Fill(32, 0)),
     MkPacket(123456789, MkPose(IdentityRotation, <<1, 2, 3>>, 77, 123456789),
              513, 514, 255, <<170, 187, 204>>, Fill(32, 255))}

DoCreate ==
    /\ \E m \in HandoffMmsis, pose \in HandoffPoses, ids \in HandoffIdPairs,
          f \in HandoffFlags, prior \in PriorPackets :
          call' = [op |-> "create", mmsi |-> m, last_pose |-> pose,
                   old_cell_id |-> ids[1], new_cell_id |-> ids[2],
                   flags |-> f, before |-> prior,
                   pkt |-> create_handoff_packet(m, pose, ids[1], ids[2],
                                                 f, prior)]
    /\ RootFixed

\* C13: after create_handoff_packet, whatever pkt contained before, the five
\* fields equal the arguments, all 32 signature bytes are zero and all 3
\* padding bytes are zero.
C13_CreateFillsAndZeroes ==
    call.op = "create" =>
        /\ call.pkt.mmsi = call.mmsi
        /\ call.pkt.last_pose = call.last_pose
        /\ call.pkt.old_cell_id = call.old_cell_id
        /\ call.pkt.new_cell_id = call.new_cell_id
        /\ call.pkt.flags = call.flags
        /\ \A k \in 1 .. 32 : call.pkt.signature[k] = 0
        /\ \A k \in 1 .. 3 : call.pkt.padding[k] = 0

----------------------------------------------------------------------------
(* serialize_handoff / deserialize_handoff *)

\* sizeof(handoff_packet_t).
HANDOFF_PACKET_SIZE == 100

\* Little-endian image of a 32-bit field; for a negative fixed_t the floor
\* division yields the two's-complement bytes.
LE32(v) ==
    <<v % 256, (v \div 256) % 256, (v \div 65536) % 256,
      (v \div 16777216) % 256>>

LE16(v) == <<v % 256, (v \div 256) % 256>>

RECURSIVE ConcatLE32(_)
ConcatLE32(vs) ==
    IF vs = <<>> THEN <<>> ELSE LE32(Head(vs)) \o ConcatLE32(Tail(vs))

\* Memory image of the packed se3_pose_t (56 bytes).
PoseBytes(pose) ==
    ConcatLE32(pose.rotation) \o ConcatLE32(pose.translation)
        \o LE32(pose.timestamp) \o LE32(pose.mmsi)

\* Memory image of the packed handoff_packet_t.
PacketBytes(pkt) ==
    LE32(pkt.mmsi) \o PoseBytes(pkt.last_pose)
        \o LE16(pkt.old_cell_id) \o LE16(pkt.new_cell_id)
        \o <<pkt.flags>> \o pkt.padding \o pkt.signature

\* memcpy(dst, src, n) into a byte array.
Memcpy(dst, src, n) ==
    [k \in 1 .. Len(dst) |-> IF k <= n THEN src[k] ELSE dst[k]]

\* Variant: the east coordinate is passed through normalize_lon before the
\* copy.
serialize_handoff_NormalizesEast(pkt, buffer) ==
    LET normalized ==
            [pkt EXCEPT !.last_pose.translation[1] = normalize_lon(@)]
    IN  [pkt |-> pkt,
         buffer |-> Memcpy(buffer, PacketBytes(normalized), HANDOFF_PACKET_SIZE)]

\* Copies *pkt and memcpys the copy into the buffer; *pkt is const.
serialize_handoff(pkt, buffer) ==
    LET normalized == pkt
    IN  [pkt |-> pkt,
         buffer |-> Memcpy(buffer, PacketBytes(normalized), HANDOFF_PACKET_SIZE)]

\* Reading of the fields back from a memory image.
U8At(b, off) == b[off + 1]

U16At(b, off) == b[off + 1] + 256 * b[off + 2]

U32At(b, off) ==
    b[off + 1] + 256 * b[off + 2] + 65536 * b[off + 3] + 16777216 * b[off + 4]

S32At(b, off) ==
    b[off + 1] + 256 * b[off + 2] + 65536 * b[off + 3]
        + 16777216 * (IF b[off + 4] >= 128 THEN b[off + 4] - 256 ELSE b[off + 4])

DecodePose(b, off) ==
    MkPose([k \in 1 .. 9 |-> S32At(b, off + 4 * (k - 1))],
           [k \in 1 .. 3 |-> S32At(b, off + 36 + 4 * (k - 1))],
           U32At(b, off + 48), U32At(b, off + 52))

DecodePacket(b) ==
    MkPacket(U32At(b, 0), DecodePose(b, 4), U16At(b, 60), U16At(b, 62),
             U8At(b, 64), [k \in 1 .. 3 |-> b[65 + k]],
             [k \in 1 .. 32 |-> b[68 + k]])

\* Variant: only the buffer pointer is tested.
DeserializeNullCheck_BufferOnly(buffer, pkt) == buffer.isnull

\* if (!buffer || !pkt)
DeserializeNullCheck(buffer, pkt) == buffer.isnull \/ pkt.isnull

\* After the null check: the inverse of serialize_handoff, with the single
\* validity check that the decoded MMSI is non-zero.
deserialize_handoff(buffer, pkt) ==
    IF DeserializeNullCheck(buffer, pkt)
    THEN [ret |-> FALSE, out |-> pkt]
    ELSE LET d == DecodePacket(buffer.v)
         IN  [ret |-> d.mmsi # 0, out |-> Ptr(d)]

SerializePackets ==
    {MkPacket(m, pose, ids[1], ids[2], f, pad, sig) :
        m \in HandoffMmsis, pose \in HandoffPoses, ids \in HandoffIdPairs,
        f \in HandoffFlags, pad \in PaddingValues, sig \in SignatureValues}

\* The caller's buffer: larger than a packet, filled with 0xEE.
CallerBuffer == Fill(HANDOFF_PACKET_SIZE + 4, 238)

DoSerialize ==
    /\ \E p \in SerializePackets :
          LET r == serialize_handoff(p, CallerBuffer)
          IN  call' = [op |-> "serialize", pkt |-> p, pkt_after |-> r.pkt,
                       buffer |-> r.buffer]
    /\ RootFixed

\* The receiver is handed the buffer of the last serialize_handoff (or a
\* null pointer) and an output packet (or a null pointer).
DoDeserialize ==
    /\ call.op = "serialize"
    /\ \E b \in {NullPtr, Ptr(call.buffer)},
          o \in {NullPtr} \cup {Ptr(q) : q \in PriorPackets} :
          LET r == deserialize_handoff(b, o)
          IN  call' = [op |-> "deserialize", sent |-> call.pkt,
                       buffer |-> b, pkt |-> o,
                       ret |-> r.ret, out |-> r.out]
    /\ RootFixed

C15_DeserializeChecksOnlyMmsi ==
    call.op = "deserialize" =>
        (call.ret <=> (/\ ~call.buffer.isnull
                       /\ ~call.pkt.isnull
                       /\ call.sent.mmsi # 0))

\* A packet with equal cell IDs and timestamp 0 deserialised successfully.
C15_Witness ==
    /\ call.op = "deserialize" /\ call.ret
    /\ call.out.v.old_cell_id = call.out.v.new_cell_id
    /\ call.out.v.last_pose.timestamp = 0

----------------------------------------------------------------------------
(* detect_dateline_cross, compute_handoff_flags *)

Abs(x) == IF x < 0 THEN -x ELSE x

Deg(d) == d * FRACUNIT

\* Variant: the comparison is made on the delta wrapped to [-180, 180].
DatelineDelta_Normalized(lon1, lon2) == normalize_lon(lon2 - lon1)

\* raw_delta: the difference of the two normalised longitudes, not wrapped.
DatelineDelta(lon1, lon2) == lon2 - lon1

detect_dateline_cross(lon1, lon2) ==
    LET l1 == normalize_lon(lon1)
        l2 == normalize_lon(lon2)
        raw_delta == DatelineDelta(l1, l2)
        threshold == FIXED_180_DEG
    IN  raw_delta > threshold \/ raw_delta < -threshold

\* Longitudes handed to the function: the range ends, values one step and
\* one degree inside them, pairs exactly 180 degrees apart and one step
\* more, and two values outside [-180, 180].
DatelineLons ==
    {-Deg(200), -Deg(180), -Deg(179), -Deg(90), 0, 1, Deg(90), Deg(90) + 1,
     Deg(100), Deg(110), Deg(179), Deg(180), Deg(190)}

LonInRange(lon) == -FIXED_180_DEG <= lon /\ lon <= FIXED_180_DEG

DoDateline ==
    /\ \E lon1 \in DatelineLons, lon2 \in DatelineLons :
          call' = [op |-> "dateline", lon1 |-> lon1, lon2 |-> lon2,
                   ret |-> detect_dateline_cross(lon1, lon2)]
    /\ RootFixed

\* C16: for two longitudes a and b already in [-180, 180] degrees,
\* detect_dateline_cross(a, b) is true exactly when |b - a| > 180 degrees;
\* a difference of exactly 180 degrees is not a crossing.
C16_DatelineIff ==
    (/\ call.op = "dateline"
     /\ LonInRange(call.lon1) /\ LonInRange(call.lon2))
        => (call.ret <=> Abs(call.lon2 - call.lon1) > FIXED_180_DEG)

\* 179 degrees to -179 degrees was reported as a crossing.
C16_Witness ==
    /\ call.op = "dateline"
    /\ call.lon1 = Deg(179) /\ call.lon2 = -Deg(179)
    /\ call.ret

HANDOFF_FLAG_DATELINE_CROSS == 1

HANDOFF_FLAG_POLAR_REGION == 2

POLAR_THRESHOLD == 80 * FRACUNIT

\* fixed_abs, for every value but INT32_MIN (whose negation overflows).
fixed_abs(val) == IF val < 0 THEN -val ELSE val

\* Variant: only the source latitude is tested.
PolarRegion_SourceOnly(lat1, lat2) == fixed_abs(lat1) > POLAR_THRESHOLD

PolarRegion(lat1, lat2) ==
    fixed_abs(lat1) > POLAR_THRESHOLD \/ fixed_abs(lat2) > POLAR_THRESHOLD

\* The two flags are distinct bits of a byte that starts at 0, so or-ing
\* them in is adding them.
compute_handoff_flags(lat1, lon1, lat2, lon2) ==
    (IF detect_dateline_cross(lon1, lon2)
        THEN HANDOFF_FLAG_DATELINE_CROSS ELSE 0)
    + (IF PolarRegion(lat1, lat2) THEN HANDOFF_FLAG_POLAR_REGION ELSE 0)

FlagLats ==
    {-Deg(90), -Deg(80) - 1, -Deg(80), 0, Deg(80), Deg(80) + 1, Deg(90)}

FlagLons == {-Deg(179), 0, Deg(100), Deg(179), Deg(180)}

DoFlags ==
    /\ \E lat1 \in FlagLats, lat2 \in FlagLats,
          lon1 \in FlagLons, lon2 \in FlagLons :
          call' = [op |-> "flags", lat1 |-> lat1, lon1 |-> lon1,
                   lat2 |-> lat2, lon2 |-> lon2,
                   ret |-> compute_handoff_flags(lat1, lon1, lat2, lon2)]
    /\ RootFixed

Bit(byte, k) == (byte \div (2 ^ k)) % 2

\* C17: compute_handoff_flags returns a byte whose bit 0 is set iff
\* detect_dateline_cross(lon1, lon2), whose bit 1 is set iff |lat1| > 80
\* degrees or |lat2| > 80 degrees (strictly, either endpoint), and whose
\* bits 2-7 are zero.
C17_FlagBits ==
    call.op = "flags" =>
        /\ call.ret \in 0 .. 255
        /\ Bit(call.ret, 0) = 1 <=> detect_dateline_cross(call.lon1, call.lon2)
        /\ Bit(call.ret, 1) = 1 <=>
              (Abs(call.lat1) > Deg(80) \/ Abs(call.lat2) > Deg(80))
        /\ \A k \in 2 .. 7 : Bit(call.ret, k) = 0

\* Only the destination is polar (one step beyond -80 degrees) and the
\* dateline is crossed: both bits are set.
C17_Witness ==
    /\ call.op = "flags"
    /\ call.lat1 = Deg(80) /\ call.lat2 = -Deg(80) - 1
    /\ call.lon1 = Deg(179) /\ call.lon2 = -Deg(179)
    /\ call.ret = 3

HandoffNext ==
    DoValidate \/ DoCreate \/ DoSerialize \/ DoDeserialize
    \/ DoDateline \/ DoFlags

SpecHandoff == InitHandoff /\ [][HandoffNext]_vars

----------------------------------------------------------------------------
(* handoff_should_trigger *)

INT32_MAX == 2147483647

INT32_MIN == -INT32_MAX - 1

CELL_SIZE_KM == 10

\* A single-precision value of magnitude m * 2^e, m = 0 or a 24-bit
\* significand with its top bit set; neg is the sign.
MkFloat(neg, m, e) == [neg |-> neg, m |-> m, e |-> e]

SIGNIFICAND == 2 ^ 24

RECURSIVE BitLen(_)
BitLen(x) == IF x = 0 THEN 0 ELSE 1 + BitLen(x \div 2)

\* Round to nearest, ties to even: q plus a remainder of rem / unit.
RoundNearestEven(q, rem, unit) ==
    IF 2 * rem > unit \/ (2 * rem = unit /\ q % 2 = 1) THEN q + 1 ELSE q

\* A rounded significand that reached 2^24 moves up one binade.
Renormalize(neg, m, e) ==
    IF m = SIGNIFICAND THEN MkFloat(neg, SIGNIFICAND \div 2, e + 1)
    ELSE MkFloat(neg, m, e)

\* (float)x for an int32 x other than INT32_MIN.
IntToFloat(x) ==
    LET a == Abs(x)
        n == BitLen(a)
        sh == n - 24
    IN  IF a = 0 THEN MkFloat(FALSE, 0, 0)
        ELSE IF n <= 24 THEN MkFloat(x < 0, a * 2 ^ (24 - n), n - 24)
        ELSE Renormalize(x < 0,
                 RoundNearestEven(a \div 2 ^ sh, a % 2 ^ sh, 2 ^ sh), sh)

\* (float)(f) / FRACUNIT: the division by 2^16 is exact.
FIXED_TO_FLOAT(f) ==
    LET x == IntToFloat(f)
    IN  IF x.m = 0 THEN x ELSE MkFloat(x.neg, x.m, x.e - FRACBITS)

\* a * b in single precision.  The 48-bit product of the significands is
\* hi * 2^24 + lo, built from 12-bit halves.
FloatMul(a, b) ==
    LET ah == a.m \div 4096
        al == a.m % 4096
        bh == b.m \div 4096
        bl == b.m % 4096
        mid == ah * bl + al * bh
        lo_sum == al * bl + (mid % 4096) * 4096
        lo == lo_sum % SIGNIFICAND
        hi == ah * bh + mid \div 4096 + lo_sum \div SIGNIFICAND
        neg == a.neg # b.neg
        half == SIGNIFICAND \div 2
    IN  IF a.m = 0 \/ b.m = 0 THEN MkFloat(neg, 0, 0)
        ELSE IF hi >= half
            THEN Renormalize(neg, RoundNearestEven(hi, lo, SIGNIFICAND),
                             a.e + b.e + 24)
            ELSE Renormalize(neg,
                     RoundNearestEven(2 * hi + lo \div half, lo % half, half),
                     a.e + b.e + 23)

\* a + b in single precision, for operands that are not negative (the
\* operands here are squares).
FloatAdd(a, b) ==
    LET x == IF a.e >= b.e THEN a ELSE b
        y == IF a.e >= b.e THEN b ELSE a
        d == x.e - y.e
        s == x.m + y.m \div 2 ^ d
        r == y.m % 2 ^ d
    IN  IF a.m = 0 THEN b
        ELSE IF b.m = 0 THEN a
        ELSE IF d > 25 THEN x
        ELSE IF s < SIGNIFICAND
            THEN Renormalize(FALSE, RoundNearestEven(s, r, 2 ^ d), x.e)
            ELSE Renormalize(FALSE,
                     RoundNearestEven(s \div 2, (s % 2) * 2 ^ d + r,
                                      2 ^ (d + 1)),
                     x.e + 1)

\* a > b for operands that are not negative.
FloatGreater(a, b) ==
    /\ a.m # 0
    /\ \/ b.m = 0
       \/ a.e > b.e
       \/ a.e = b.e /\ a.m > b.m

\* curr - prev is not representable in int32.
SubOverflows(curr, prev) ==
    IF prev < 0 THEN curr > INT32_MAX + prev ELSE curr < INT32_MIN + prev

\* The branch taken when the three int32 differences are representable.
TriggerFromDeltas(dx, dy, dz) ==
    LET dx_m == FIXED_TO_FLOAT(dx)
        dy_m == FIXED_TO_FLOAT(dy)
        dz_m == FIXED_TO_FLOAT(dz)
        dist_sq_m == FloatAdd(FloatAdd(FloatMul(dx_m, dx_m),
                                       FloatMul(dy_m, dy_m)),
                              FloatMul(dz_m, dz_m))
        threshold_m == FloatMul(IntToFloat(CELL_SIZE_KM), IntToFloat(1000))
        threshold_m_sq == FloatMul(threshold_m, threshold_m)
    IN  FloatGreater(dist_sq_m, threshold_m_sq)

\* The set of values handoff_should_trigger can return.  A signed
\* subtraction that overflows is undefined, so either value can come back.
handoff_should_trigger(prev, curr) ==
    IF prev.isnull \/ curr.isnull THEN {FALSE}
    ELSE LET p == prev.v.translation
             c == curr.v.translation
         IN  IF \E i \in 1 .. 3 : SubOverflows(c[i], p[i]) THEN BOOLEAN
             ELSE {TriggerFromDeltas(c[1] - p[1], c[2] - p[2], c[3] - p[3])}

Metres(n) == n * FRACUNIT

TriggerPrevs ==
    {MkPose(IdentityRotation, <<x, 0, 0>>, 0, 123456789) :
        x \in {-Metres(30000), 0, Metres(1000)}}

TriggerCurrs ==
    {MkPose(IdentityRotation, <<x, y, z>>, 60, 123456789) :
        x \in {-Metres(30000), 0, Metres(5000), Metres(6000), Metres(10000),
               Metres(10000) + 1, Metres(10000) + 64, Metres(11000),
               Metres(30000)},
        y \in {0, Metres(8000)},
        z \in {0, Metres(1), -Metres(20000)}}

DoShouldTrigger ==
    /\ \E prev \in {NullPtr} \cup {Ptr(p) : p \in TriggerPrevs},
          curr \in {NullPtr} \cup {Ptr(c) : c \in TriggerCurrs} :
          \E ret \in handoff_should_trigger(prev, curr) :
             call' = [op |-> "should_trigger", prev |-> prev, curr |-> curr,
                      ret |-> ret]
    /\ RootFixed

\* Exact arithmetic for the squared distance: natural numbers as five
\* base-2^15 digits, least significant first.
BASE == 32768

RECURSIVE CarryInto(_, _)
CarryInto(cs, k) ==
    IF k = 1 THEN 0 ELSE (cs[k - 1] + CarryInto(cs, k - 1)) \div BASE

Digits(cs) == [k \in 1 .. 5 |-> (cs[k] + CarryInto(cs, k)) % BASE]

\* d * d for 0 <= d < 2^30.
SquareDigits(d) ==
    LET a == d \div BASE
        b == d % BASE
        ab == Digits(<<a * b, 0, 0, 0, 0>>)
    IN  Digits(<<b * b, 2 * ab[1], 2 * ab[2] + a * a, 0, 0>>)

DigitsGreater(x, y) ==
    \E i \in 1 .. 5 : x[i] > y[i] /\ \A j \in (i + 1) .. 5 : x[j] = y[j]

THRESHOLD_FIXED == Metres(CELL_SIZE_KM * 1000)

\* The squared distance between the two translations is more than
\* (CELL_SIZE_KM * 1000 m)^2, in exact arithmetic.
DistanceExceedsCell(p, c) ==
    \/ \E i \in 1 .. 3 : SubOverflows(c[i], p[i])
    \/ \E i \in 1 .. 3 : c[i] - p[i] > THRESHOLD_FIXED
                         \/ c[i] - p[i] < -THRESHOLD_FIXED
    \/ /\ \A i \in 1 .. 3 : ~SubOverflows(c[i], p[i])
       /\ \A i \in 1 .. 3 : Abs(c[i] - p[i]) <= THRESHOLD_FIXED
       /\ LET sq == [i \in 1 .. 3 |-> SquareDigits(Abs(c[i] - p[i]))]
              sum == Digits([k \in 1 .. 5 |-> sq[1][k] + sq[2][k] + sq[3][k]])
          IN  DigitsGreater(sum, SquareDigits(THRESHOLD_FIXED))

\* C18: for two non-null poses with representable translations,
\* handoff_should_trigger returns true exactly when the squared ENU
\* distance exceeds (10 000 m)^2, also when a component difference is
\* outside the int32 range (-30 000 m to +30 000 m); a null input returns
\* false.
C18_TriggerIffBeyondCell ==
    call.op = "should_trigger" =>
        IF call.prev.isnull \/ call.curr.isnull THEN ~call.ret
        ELSE call.ret <=> DistanceExceedsCell(call.prev.v.translation,
                                              call.curr.v.translation)

TriggerNext == DoShouldTrigger

SpecTrigger == InitHandoff /\ [][TriggerNext]_vars

----------------------------------------------------------------------------
(* Cell-ID encoding: t_bsp_latlon_to_cell, t_bsp_get_cell_bounds *)

\* (fixed_t)(111.32f * FRACUNIT): the single-precision 111.32 is
\* 14590935 * 2^-17, times 2^16 is 7295467.5, truncated.
FIXED_DEG_TO_KM == 7295467

\* x + y reduced to int32, for int32 x and y.
Add32(x, y) ==
    IF x >= 0 /\ y >= 0 /\ x > INT32_MAX - y
        THEN (x - INT32_MAX - 1) + (y - INT32_MAX - 1)
    ELSE IF x < 0 /\ y < 0 /\ x < INT32_MIN - y
        THEN (x + INT32_MAX + 1) + (y + INT32_MAX + 1)
    ELSE x + y

\* The low 16 bits of v read as a signed 16-bit number.
Signed16(v) ==
    IF v % 65536 >= 32768 THEN (v % 65536) - 65536 ELSE v % 65536

\* (fixed_t)(((int64_t)a * (int64_t)b) >> FRACBITS), from 16-bit halves of
\* the operands; every partial result stays within 32 bits.
FixedMul(a, b) ==
    LET ah == a \div FRACUNIT
        al == a % FRACUNIT
        bh == b \div FRACUNIT
        bl == b % FRACUNIT
        low == ((al \div 256) * bl + ((al % 256) * bl) \div 256) \div 256
        top == Signed16(ah * bh) * FRACUNIT
    IN  Add32(Add32(Add32(top, ah * bl), al * bh), low)

\* The n binary digits after the point of r / b, for 0 <= r < b < 2^30.
RECURSIVE FractionBits(_, _, _)
FractionBits(r, b, n) ==
    IF n = 0 THEN 0
    ELSE ((2 * r) \div b) * 2 ^ (n - 1) + FractionBits((2 * r) % b, b, n - 1)

\* (fixed_t)(((int64_t)a << FRACBITS) / (int64_t)b): the quotient is
\* truncated toward zero and reduced to int32; saturated when b is 0.
\* For |b| < 2^30 and a other than INT32_MIN.
FixedDiv(a, b) ==
    IF b = 0 THEN (IF a < 0 THEN INT32_MIN ELSE INT32_MAX)
    ELSE LET na == Abs(a)
             nb == Abs(b)
             hi == (na \div nb) % FRACUNIT
             lo == FractionBits(na % nb, nb, FRACBITS)
             neg == (a < 0) # (b < 0)
         IN  IF neg
                 THEN IF hi < 32768 \/ (hi = 32768 /\ lo = 0)
                          THEN (-hi) * FRACUNIT - lo
                          ELSE (FRACUNIT - hi) * FRACUNIT - lo
                 ELSE Signed16(hi) * FRACUNIT + lo

INT_TO_FIXED(i) == i * FRACUNIT

\* f >> FRACBITS, an arithmetic shift: the floor.
FIXED_TO_INT(f) == f \div FRACUNIT

Clamp8(idx) == IF idx > 127 THEN 127 ELSE IF idx < -128 THEN -128 ELSE idx

generate_cell_id(lat_idx, lon_idx) ==
    (Clamp8(lat_idx) % 256) * 256 + (Clamp8(lon_idx) % 256)

SignExtend8(b) == IF b >= 128 THEN b - 256 ELSE b

decode_cell_id(cell_id) ==
    [lat_idx |-> SignExtend8((cell_id \div 256) % 256),
     lon_idx |-> SignExtend8(cell_id % 256)]

\* The index on one axis from the kilometre delta on that axis.
CellIndex(d_km) ==
    LET cell_size_fixed == INT_TO_FIXED(CELL_SIZE_KM)
        adjusted == d_km - (cell_size_fixed - FRACUNIT)
    IN  IF d_km >= 0 THEN FIXED_TO_INT(FixedDiv(d_km, cell_size_fixed))
        ELSE FIXED_TO_INT(FixedDiv(adjusted, cell_size_fixed))

t_bsp_latlon_to_cell(rlat, rlon, lat, lon) ==
    LET dlat == lat - rlat
        dlon == normalize_lon(lon) - rlon
        dlat_km == FixedMul(dlat, FIXED_DEG_TO_KM)
        dlon_km == FixedMul(dlon, FIXED_DEG_TO_KM)
    IN  generate_cell_id(CellIndex(dlat_km), CellIndex(dlon_km))

t_bsp_get_cell_bounds(rlat, rlon, cell_id) ==
    LET idx == decode_cell_id(cell_id)
        cell_size_deg == FixedDiv(INT_TO_FIXED(CELL_SIZE_KM), FIXED_DEG_TO_KM)
        lat_offset == FixedMul(INT_TO_FIXED(idx.lat_idx), cell_size_deg)
        lon_offset == FixedMul(INT_TO_FIXED(idx.lon_idx), cell_size_deg)
        lat_min == rlat + lat_offset
        lon_min == normalize_lon(rlon + lon_offset)
    IN  [lat_min |-> lat_min, lat_max |-> lat_min + cell_size_deg,
         lon_min |-> lon_min, lon_max |-> normalize_lon(lon_min + cell_size_deg)]

\* Reference points: the equator at the prime meridian, and one point in
\* each of the other three quadrants.
GridRefs ==
    {<<0, 0>>, <<Deg(47), -Deg(122)>>, <<-Deg(33), Deg(151)>>,
     <<-Deg(54), -Deg(68)>>}

\* Offsets of a point from the reference in 1/65536 degree: up to one
\* degree (11 cells) either way, half a cell (2944), the last step of cell
\* 0 (5887) and the first of cell 1 (5888), and the last step of cell 5.
GridDeltas ==
    {-Deg(1), -5888, -5887, -2944, -1, 0, 1, 2944, 5887, 5888, 35323, Deg(1)}

DoGridInit == \E r \in GridRefs : t_bsp_init(r[1], r[2])

DoLatLonToCell ==
    /\ \E dlat \in GridDeltas, dlon \in GridDeltas :
          LET lat == ref_lat + dlat
              lon == ref_lon + dlon
          IN  call' = [op |-> "latlon_to_cell", lat |-> lat, lon |-> lon,
                       ret |-> t_bsp_latlon_to_cell(ref_lat, ref_lon, lat, lon)]
    /\ RootFixed

\* The bounds of the cell that the last t_bsp_latlon_to_cell returned.
DoGetCellBounds ==
    /\ call.op = "latlon_to_cell"
    /\ call' = [op |-> "get_cell_bounds", lat |-> call.lat, lon |-> call.lon,
                cell_id |-> call.ret,
                bounds |-> t_bsp_get_cell_bounds(ref_lat, ref_lon, call.ret)]
    /\ RootFixed

\* C19: t_bsp_latlon_to_cell followed by t_bsp_get_cell_bounds on the
\* returned ID yields bounds with lat_min <= lat <= lat_max and
\* lon_min <= lon <= lon_max, for points north/east of the reference and
\* for points south/west of it alike.
C19_BoundsContainPoint ==
    call.op = "get_cell_bounds" =>
        /\ call.bounds.lat_min <= call.lat /\ call.lat <= call.bounds.lat_max
        /\ call.bounds.lon_min <= call.lon /\ call.lon <= call.bounds.lon_max

\* d / CELL_SIZE_KM rounded toward zero, d in 16.16 kilometres.
IndexTowardZero(d_km) ==
    IF d_km >= 0 THEN d_km \div INT_TO_FIXED(CELL_SIZE_KM)
    ELSE -((-d_km) \div INT_TO_FIXED(CELL_SIZE_KM))

\* C20: the per-axis index of t_bsp_latlon_to_cell is floor(d / CELL_SIZE_KM)
\* for a non-negative kilometre delta d and is rounded toward zero for a
\* negative one, so index(-d) = -index(d); every delta strictly between
\* -CELL_SIZE_KM and +CELL_SIZE_KM gets index 0, and the reference point
\* maps to cell ID 0.
C20_RoundingPolicy ==
    call.op = "latlon_to_cell" =>
        LET idx == decode_cell_id(call.ret)
            dlat_km == FixedMul(call.lat - ref_lat, FIXED_DEG_TO_KM)
            dlon_km == FixedMul(normalize_lon(call.lon) - ref_lon,
                                FIXED_DEG_TO_KM)
        IN  /\ idx.lat_idx = IndexTowardZero(dlat_km)
            /\ idx.lon_idx = IndexTowardZero(dlon_km)
            /\ Abs(dlat_km) < INT_TO_FIXED(CELL_SIZE_KM) => idx.lat_idx = 0
            /\ Abs(dlon_km) < INT_TO_FIXED(CELL_SIZE_KM) => idx.lon_idx = 0
            /\ (call.lat = ref_lat /\ call.lon = ref_lon) => call.ret = 0

GridNext == DoGridInit \/ DoLatLonToCell \/ DoGetCellBounds

SpecGrid == InitHandoff /\ [][GridNext]_vars

----------------------------------------------------------------------------
(* Geodetic utilities (src/embedded/se3_math.c): normalize_lon,
   heading_to_angle *)

FIXED_90_DEG == 90 * FRACUNIT

\* Longitudes handed to normalize_lon: every multiple of 45 degrees up to
\* five turns either way, each also one step above and below, and the ends
\* of the int32 range.
LonInputs ==
    {Deg(45 * k) + j : k \in -40 .. 40, j \in {-1, 0, 1}}
    \cup {INT32_MIN, INT32_MIN + 1, INT32_MAX - FIXED_360_DEG,
          INT32_MAX - FIXED_360_DEG + 1, INT32_MAX}

DoNormalizeLon ==
    /\ \E x \in LonInputs :
          call' = [op |-> "normalize_lon", x |-> x, ret |-> normalize_lon(x)]
    /\ RootFixed

\* C21: for every 32-bit fixed-point degree value x, normalize_lon(x)
\* terminates and returns a value in [-180, 180] degrees that differs from x
\* by a whole multiple of 360 degrees, and normalize_lon is idempotent.
C21_NormalizeLonRange ==
    call.op = "normalize_lon" =>
        /\ -FIXED_180_DEG <= call.ret /\ call.ret <= FIXED_180_DEG
        /\ call.ret % FIXED_360_DEG = call.x % FIXED_360_DEG
        /\ normalize_lon(call.ret) = call.ret

\* The largest int32 was folded, through 91 subtractions, into the range.
C21_Witness ==
    /\ call.op = "normalize_lon"
    /\ call.x = INT32_MAX
    /\ call.ret # call.x
    /\ LonInRange(call.ret)

\* C22: normalize_lon is 360-degree periodic: whenever x + 360 degrees is
\* representable, normalize_lon(x + 360 degrees) equals normalize_lon(x) to
\* within 1 LSB, at x = -180 degrees and x = 180 degrees too.
C22_NormalizeLonPeriodic ==
    (call.op = "normalize_lon" /\ call.x <= INT32_MAX - FIXED_360_DEG)
        => Abs(normalize_lon(call.x + FIXED_360_DEG) - call.ret) <= 1

\* A 32-bit angle, 2^32 to the full circle, as its two 16-bit halves.
Angle32(hi, lo) == [hi |-> hi, lo |-> lo]

\* Variant: the heading is used as the angle without the frame correction.
CorrectedHeading_NoShift(heading_deg) == heading_deg

\* heading_deg + FIXED_90_DEG, for headings where the sum is representable.
CorrectedHeading(heading_deg) == heading_deg + FIXED_90_DEG

\* The two while loops that wrap the corrected heading to [0, 360).
RECURSIVE WrapHeading(_)
WrapHeading(deg) ==
    IF deg >= FIXED_360_DEG THEN WrapHeading(deg - FIXED_360_DEG)
    ELSE IF deg < 0 THEN WrapHeading(deg + FIXED_360_DEG)
    ELSE deg

\* (uint32_t)(((uint64_t)corrected_deg << 32) / FIXED_360_DEG): with
\* FIXED_360_DEG = 360 * 2^16 this is floor(corrected_deg * 2^16 / 360);
\* the quotient by 360 is the high half, the scaled remainder the low half.
heading_to_angle(heading_deg) ==
    LET corrected_deg == WrapHeading(CorrectedHeading(heading_deg))
    IN  Angle32(corrected_deg \div 360,
                ((corrected_deg % 360) * FRACUNIT) \div 360)

\* Headings: every multiple of 30 degrees up to two turns either way, each
\* also one step above, and the ends of the range in which the corrected
\* heading is representable.
HeadingInputs ==
    {Deg(30 * k) + j : k \in -24 .. 24, j \in {0, 1}}
    \cup {INT32_MIN, INT32_MAX - FIXED_360_DEG - FIXED_90_DEG,
          INT32_MAX - FIXED_360_DEG - FIXED_90_DEG + 1,
          INT32_MAX - FIXED_90_DEG}

DoHeadingToAngle ==
    /\ \E h \in HeadingInputs :
          call' = [op |-> "heading_to_angle", heading |-> h,
                   ret |-> heading_to_angle(h)]
    /\ RootFixed

\* C23: heading_to_angle applies the +90 degree correction and wraps before
\* scaling: heading 0 gives 0x40000000, heading 270 degrees gives 0, and
\* heading_to_angle(h + 360 degrees) = heading_to_angle(h) for every
\* heading h, negative ones included, for which h + 450 degrees is
\* representable.
C23_HeadingToAngle ==
    call.op = "heading_to_angle" =>
        /\ call.heading = 0 => call.ret = Angle32(16384, 0)
        /\ call.heading = Deg(270) => call.ret = Angle32(0, 0)
        /\ call.heading <= INT32_MAX - FIXED_360_DEG - FIXED_90_DEG
              => heading_to_angle(call.heading + FIXED_360_DEG) = call.ret

\* A negative heading one step off a multiple of 30 degrees: -90 degrees
\* plus one step is an angle of one step, 65536 / 360 = 182 units.
C23_Witness ==
    /\ call.op = "heading_to_angle"
    /\ call.heading = -Deg(90) + 1
    /\ call.ret = Angle32(0, 182)

GeoNext == DoNormalizeLon \/ DoHeadingToAngle

SpecGeo == InitHandoff /\ [][GeoNext]_vars

----------------------------------------------------------------------------
(* t_bsp_get_adjacent_cells *)

\* offsets[8][2]: {lat, lon} steps, in the order the source labels NW, N,
\* NE, W, E, SW, S, SE.
offsets ==
    << <<-1, -1>>, <<-1, 0>>, <<-1, 1>>,
       << 0, -1>>,            << 0, 1>>,
       << 1, -1>>, << 1, 0>>, << 1, 1>> >>

\* Variant: only the latitude index is tested against the grid range.
NeighborInBounds_LatOnly(neighbor_lat, neighbor_lon) ==
    neighbor_lat >= -128 /\ neighbor_lat <= 127

NeighborInBounds(neighbor_lat, neighbor_lon) ==
    /\ neighbor_lat >= -128 /\ neighbor_lat <= 127
    /\ neighbor_lon >= -128 /\ neighbor_lon <= 127

\* The for loop from index i on; acc is neighbors[0 .. count-1] so far.
RECURSIVE AdjacentLoop(_, _, _, _)
AdjacentLoop(lat_idx, lon_idx, i, acc) ==
    IF i > 8 THEN acc
    ELSE LET neighbor_lat == lat_idx + offsets[i][1]
             neighbor_lon == lon_idx + offsets[i][2]
         IN  AdjacentLoop(lat_idx, lon_idx, i + 1,
                 IF NeighborInBounds(neighbor_lat, neighbor_lon)
                     THEN Append(acc, generate_cell_id(neighbor_lat,
                                                       neighbor_lon))
                     ELSE acc)

\* The entries written to neighbors[], in order, and *count.
t_bsp_get_adjacent_cells(cell_id) ==
    LET idx == decode_cell_id(cell_id)
        written == AdjacentLoop(idx.lat_idx, idx.lon_idx, 1, <<>>)
    IN  [neighbors |-> written, count |-> Len(written)]

\* Indices at and next to both ends of the grid, and around its centre.
AdjacentIndices == {-128, -127, -126, -2, -1, 0, 1, 2, 125, 126, 127}

AdjacentCellIds ==
    {(lat % 256) * 256 + (lon % 256) :
        lat \in AdjacentIndices, lon \in AdjacentIndices}

DoAdjacent ==
    /\ \E id \in AdjacentCellIds :
          LET r == t_bsp_get_adjacent_cells(id)
          IN  call' = [op |-> "adjacent", cell_id |-> id,
                       neighbors |-> r.neighbors, count |-> r.count]
    /\ RootFixed

\* The index steps that the names of the eight directions stand for in the
\* interface: the first row of the 3x3 picture is latitude index - 1.
CompassOrder == <<"NW", "N", "NE", "W", "E", "SW", "S", "SE">>

CompassStep(dir) ==
    [lat |-> IF dir \in {"NW", "N", "NE"} THEN -1
             ELSE IF dir \in {"SW", "S", "SE"} THEN 1 ELSE 0,
     lon |-> IF dir \in {"NW", "W", "SW"} THEN -1
             ELSE IF dir \in {"NE", "E", "SE"} THEN 1 ELSE 0]

OnGridEnd(i) == i = -128 \/ i = 127

AdjacentNext == DoAdjacent

SpecAdjacent == InitHandoff /\ [][AdjacentNext]_vars

----------------------------------------------------------------------------
(* Per-vessel handoff state machine.  The driver that feeds poses to the
   handoff functions is not part of the sources; it follows the state
   machine of the specification, and calls t_bsp_latlon_to_cell,
   compute_handoff_flags, create_handoff_packet and validate_handoff_packet
   as the sources define them. *)

\* The state of one vessel: NO_CELL, or IN_CELL(cell) with the last pose
\* and position seen.
NoCell(mmsi) ==
    [state |-> "NO_CELL", mmsi |-> mmsi, cell |-> 0,
     last_pose |-> MkPose(IdentityRotation, <<0, 0, 0>>, 0, mmsi),
     lat |-> 0, lon |-> 0]

InCell(mmsi, cell, pose, lat, lon) ==
    [state |-> "IN_CELL", mmsi |-> mmsi, cell |-> cell, last_pose |-> pose,
     lat |-> lat, lon |-> lon]

\* One pose of the vessel at (lat, lon): the next state and the packets
\* emitted.  The packet carries the final pose in the old cell and is built
\* in the caller's packet memory pkt.
VesselStep(v, pose, lat, lon, pkt) ==
    LET c == t_bsp_latlon_to_cell(ref_lat, ref_lon, lat, lon)
        next == InCell(v.mmsi, c, pose, lat, lon)
    IN  IF v.state = "NO_CELL" \/ c = v.cell
            THEN [vessel |-> next, emitted |-> <<>>]
            ELSE [vessel |-> next,
                  emitted |->
                      <<create_handoff_packet(
                            v.mmsi, v.last_pose, v.cell, c,
                            compute_handoff_flags(v.lat, v.lon, lat, lon),
                            pkt)>>]

VesselMmsis == {0, 367123456}

\* Positions in the reference cell, one and two cells north, and one cell
\* east of the reference at (0, 0).
VesselLats == {0, 2944, 5888, 11776}

VesselLons == {0, 5888}

VesselTimestamps == {1000, 200000}

\* A new vessel arrives: its state machine starts from NO_CELL.
DoVesselArrive ==
    /\ \E m \in VesselMmsis :
          call' = [op |-> "vessel_arrive", vessel |-> NoCell(m)]
    /\ RootFixed

DoVesselPose ==
    /\ call.op \in {"vessel_arrive", "vessel_pose"}
    /\ \E lat \in VesselLats, lon \in VesselLons, ts \in VesselTimestamps,
          prior \in PriorPackets :
          LET pose == MkPose(IdentityRotation, <<0, 0, 0>>, ts,
                             call.vessel.mmsi)
              r == VesselStep(call.vessel, pose, lat, lon, prior)
          IN  call' = [op |-> "vessel_pose", before |-> call.vessel,
                       lat |-> lat, lon |-> lon,
                       vessel |-> r.vessel, emitted |-> r.emitted]
    /\ RootFixed

\* Receiver clocks: before the pose, at it, and up to and beyond the age
\* limit after either timestamp.
ReceiverClocks ==
    {0, 1000, 1001, 87400, 87401, 200000, 286400, 286401}

\* C25: from NO_CELL the first pose only establishes IN_CELL(c) and emits
\* no packet; in IN_CELL(c) a pose in cell c emits nothing and stays, a pose
\* in a cell c2 # c emits exactly one packet with old_cell_id = c and
\* new_cell_id = c2 and leaves the vessel in IN_CELL(c2).  So every emitted
\* packet has old_cell_id # new_cell_id and, for a non-zero MMSI, passes
\* validate_handoff_packet at every receiver clock no more than 86 400 s
\* after the pose timestamp.
C25_HandoffStateMachine ==
    call.op = "vessel_pose" =>
        LET c2 == t_bsp_latlon_to_cell(ref_lat, ref_lon, call.lat, call.lon)
            was == call.before
        IN  /\ call.vessel.state = "IN_CELL" /\ call.vessel.cell = c2
            /\ was.state = "NO_CELL" => call.emitted = <<>>
            /\ (was.state = "IN_CELL" /\ c2 = was.cell) => call.emitted = <<>>
            /\ (was.state = "IN_CELL" /\ c2 # was.cell) =>
                  /\ Len(call.emitted) = 1
                  /\ call.emitted[1].old_cell_id = was.cell
                  /\ call.emitted[1].new_cell_id = c2
            /\ \A k \in 1 .. Len(call.emitted) :
                  LET p == call.emitted[k]
                  IN  /\ p.old_cell_id # p.new_cell_id
                      /\ p.mmsi # 0 =>
                            \A now \in ReceiverClocks :
                               now <= p.last_pose.timestamp + HANDOFF_MAX_AGE
                                  => validate_handoff_packet(Ptr(p), now)

\* A vessel moved from the reference cell to the cell north of it and the
\* packet is still accepted exactly 86 400 s after its pose.
C25_Witness ==
    /\ call.op = "vessel_pose"
    /\ call.before.state = "IN_CELL" /\ call.before.cell = 0
    /\ Len(call.emitted) = 1
    /\ call.emitted[1].new_cell_id = 256
    /\ call.emitted[1].mmsi # 0
    /\ call.emitted[1].last_pose.timestamp = 1000
    /\ validate_handoff_packet(Ptr(call.emitted[1]), 87400)

VesselNext == DoVesselArrive \/ DoVesselPose

SpecVessel == InitHandoff /\ [][VesselNext]_vars

----------------------------------------------------------------------------
(* The cell pool, continued: t_bsp_init on a used root, appends, and
   active cells *)

\* C26: after t_bsp_init(root, lat0, lon0), whatever the root held before,
\* active_count = 0, every cell is inactive with pose_count 0 so that
\* t_bsp_get_cell finds no ID, ref_lat = lat0, and ref_lon =
\* normalize_lon(lon0), which lies in [-180, 180] degrees (200 degrees
\* becomes -160 degrees).
C26_InitClearsRoot ==
    call.op = "init" =>
        /\ active_count = 0
        /\ \A i \in CellIdx : ~cells[i].active /\ cells[i].pose_count = 0
        /\ \A id \in CellIds : t_bsp_get_cell(cells, id) = NULL
        /\ ref_lat = call.lat0
        /\ ref_lon = normalize_lon(call.lon0)
        /\ LonInRange(ref_lon)
        /\ call.lon0 = Deg(200) => ref_lon = -Deg(160)

\* t_bsp_init(0, 200 degrees) on a root in which every slot was active.
C26_Witness ==
    /\ call.op = "init"
    /\ call.old_active = MAX_CELLS
    /\ call.lon0 = Deg(200)
    /\ ref_lon = -Deg(160)

\* C27: a successful t_bsp_insert_pose into a cell that is not full is a
\* pure append: the pose is stored at index (old pose_count), pose_count
\* grows by one, the poses stored before keep their values and order, and
\* every other cell and the reference point are unchanged.
C27_InsertAppends ==
    [][\A t \in CellIdx :
          (/\ call'.op = "insert" /\ call'.ret /\ call'.target = t
           /\ ~(cells[t].active /\ cells[t].pose_count >= MAX_POSES_PER_CELL))
          => LET n == IF cells[t].active THEN cells[t].pose_count ELSE 0
             IN  /\ cells'[t].poses[n] = call'.pose
                 /\ cells'[t].pose_count = n + 1
                 /\ \A k \in 0 .. (n - 1) :
                       cells'[t].poses[k] = cells[t].poses[k]
                 /\ \A j \in CellIdx \ {t} : cells'[j] = cells[j]
                 /\ ref_lat' = ref_lat /\ ref_lon' = ref_lon]_vars

\* A second pose, different from the first, was appended behind it while
\* the other cell was active.
C27_Witness ==
    /\ call.op = "insert" /\ call.ret /\ call.was_active
    /\ call.old_count = 1
    /\ cells[call.target].pose_count = 2
    /\ cells[call.target].poses[1] = call.pose
    /\ cells[call.target].poses[0] # call.pose
    /\ active_count = 2

\* C29: in every state reachable from t_bsp_init through t_bsp_insert_pose
\* and t_bsp_reset_cell, every active cell holds at least one pose.
C29_ActiveNotEmpty ==
    \A i \in CellIdx : cells[i].active => cells[i].pose_count >= 1

\* An overflowing insert has just restarted an active cell: it holds one
\* pose, not none.
C29_Witness ==
    /\ call.op = "insert" /\ call.was_active
    /\ call.old_count = MAX_POSES_PER_CELL
    /\ cells[call.target].active
    /\ cells[call.target].pose_count = 1

----------------------------------------------------------------------------
(* t_bsp_cell_near_full *)

\* (uint16_t)f for a single-precision f >= 0 below 2^16: the fraction is
\* dropped.
FloatToUint16(f) ==
    IF f.m = 0 THEN 0
    ELSE IF f.e >= 0 THEN f.m * 2 ^ f.e
    ELSE IF -f.e > 30 THEN 0
    ELSE f.m \div 2 ^ (-f.e)

t_bsp_cell_near_full(cell, threshold) ==
    IF cell.isnull \/ ~cell.v.active THEN FALSE
    ELSE LET threshold_count ==
                 FloatToUint16(FloatMul(threshold,
                                        IntToFloat(MAX_POSES_PER_CELL)))
         IN  cell.v.pose_count >= threshold_count

\* The single-precision values of 0.25f, 0.5f, 0.75f, 0.9f and 1.0f.
NearFullThresholds ==
    {MkFloat(FALSE, 8388608, -25), MkFloat(FALSE, 8388608, -24),
     MkFloat(FALSE, 12582912, -24), MkFloat(FALSE, 15099494, -24),
     MkFloat(FALSE, 8388608, -23)}

NearFullInsert == \E id \in RingIds, p \in Poses : t_bsp_insert_pose(id, p)

NearFullReset == \E id \in RingIds : t_bsp_reset_cell(id)

\* The caller asks about a cell of the pool, or passes a null pointer.
DoNearFull ==
    /\ \E cell \in {NullPtr} \cup {Ptr(cells[i]) : i \in CellIdx},
          threshold \in NearFullThresholds :
          call' = [op |-> "near_full", cell |-> cell,
                   threshold |-> threshold,
                   ret |-> t_bsp_cell_near_full(cell, threshold)]
    /\ RootFixed

\* count >= threshold * MAX_POSES_PER_CELL over the reals, for a threshold
\* m * 2^e with e < 0: both sides multiplied by 2^(-e).
AtLeastFraction(count, threshold) ==
    count * 2 ^ (-threshold.e) >= threshold.m * MAX_POSES_PER_CELL

\* C28: t_bsp_cell_near_full(cell, threshold) is true if and only if the
\* cell is non-null, active and pose_count >= threshold * MAX_POSES_PER_CELL,
\* the product compared as a real number without truncation, for every
\* threshold in (0, 1]; a null or inactive cell yields false.
C28_NearFullIff ==
    call.op = "near_full" =>
        (call.ret <=> (/\ ~call.cell.isnull
                       /\ call.cell.v.active
                       /\ AtLeastFraction(call.cell.v.pose_count,
                                          call.threshold)))

NearFullNext == NearFullInsert \/ NearFullReset \/ DoNearFull

SpecNearFull == InitHandoff /\ [][NearFullNext]_vars

----------------------------------------------------------------------------
(* t_bsp_latlon_to_cell over the whole range of coordinates *)

\* Reference points at the centre and at the ends of the coordinate range.
FarRefs ==
    {<<0, 0>>, <<0, -FIXED_180_DEG>>, <<0, FIXED_180_DEG>>,
     <<-FIXED_90_DEG, -FIXED_180_DEG>>, <<FIXED_90_DEG, FIXED_180_DEG>>}

FarLats == {-FIXED_90_DEG, 0, FIXED_90_DEG}

\* None of the differences from a reference longitude falls in the narrow
\* band below -294.2 degrees where dlon_km - (cell_size_fixed - FRACUNIT)
\* would itself leave the int32 range.
FarLons ==
    {-FIXED_180_DEG, -Deg(120), -Deg(60), -Deg(13), 0, Deg(13), Deg(60),
     Deg(120), FIXED_180_DEG}

DoFarInit == \E r \in FarRefs : t_bsp_init(r[1], r[2])

DoFarLatLonToCell ==
    /\ \E lat \in FarLats, lon \in FarLons :
          call' = [op |-> "latlon_to_cell", lat |-> lat, lon |-> lon,
                   ret |-> t_bsp_latlon_to_cell(ref_lat, ref_lon, lat, lon)]
    /\ RootFixed

\* The index agrees in sign with the degree delta, and a point at least
\* 13 degrees (1447 km, beyond the 1280 km of the grid) away is in the
\* boundary cell of its own side.
OwnSide(ddeg, idx) ==
    /\ ddeg > 0 => idx >= 0
    /\ ddeg = 0 => idx = 0
    /\ ddeg < 0 => idx < 0
    /\ ddeg >= Deg(13) => idx = 127
    /\ ddeg <= -Deg(13) => idx = -128

\* C30: for every reference and query point with latitude in [-90, 90]
\* degrees and longitude in [-180, 180] degrees the kilometre deltas of
\* t_bsp_latlon_to_cell do not wrap in int32, so each index has the sign of
\* its degree delta and far points clamp to -128 or 127 on their own side.
C30_FarPointsOwnSide ==
    call.op = "latlon_to_cell" =>
        LET idx == decode_cell_id(call.ret)
        IN  /\ OwnSide(call.lat - ref_lat, idx.lat_idx)
            /\ OwnSide(call.lon - ref_lon, idx.lon_idx)

\* The latitude half of C30 alone.
FarLatitudeOwnSide ==
    call.op = "latlon_to_cell" =>
        OwnSide(call.lat - ref_lat, decode_cell_id(call.ret).lat_idx)

FarNext == DoFarInit \/ DoFarLatLonToCell

SpecFar == InitHandoff /\ [][FarNext]_vars

====
